---- MODULE Spec2Model ----
(***************************************************************************)
(* Model of the discovery engine's flow buffer (plugin/cilium.go: the      *)
(* Hubble relay receive loop and GetCiliumFlowsFromHubble) and of the      *)
(* policy deduplicator (core/deduplicator.go: DeduplicatePolicies and its  *)
(* helpers).                                                                *)
(*                                                                         *)
(* Spec       : the flow buffer, one relay goroutine and the drain callers *)
(* FairSpec   : Spec with the goroutine scheduling fairness                *)
(* DedupSpec  : reconciliation passes of DeduplicatePolicies over a store  *)
(* ConvSpec   : the convertors of plugin/cilium.go applied to raw flows    *)
(*              and to discovered policies                                 *)
(***************************************************************************)
EXTENDS Integers, Sequences, FiniteSets, TLC

VARIABLES
    \* ---- flow buffer (plugin/cilium.go) ----
    CiliumFlows,        \* var CiliumFlows []*cilium.Flow (flow ids, arrival order)
    CiliumFlowsMutex,   \* holder of *sync.Mutex: "free", "relay" or a drain caller
    StopChan,           \* "open" or "closed"
    relayPC,            \* position of StartHubbleRelay
    relayFlow,          \* local `flow` of the receive loop (0: none)
    stream,             \* what stream.Recv() would return now: "none" blocks
    sent,               \* number of flows the stream has produced so far
    connClosed,         \* deferred conn.Close() has run
    wgDone,             \* deferred wg.Done() has run
    drainPC,            \* position of each GetCiliumFlowsFromHubble caller
    trigger,            \* argument `trigger` of each caller's current call
    results,            \* local `results` of each caller's current call
    lockedOn,           \* buffer content each caller found when it took the mutex
    delivered,          \* per flow id: how many returned drain results hold it
    \* ---- deduplicator (core/deduplicator.go) ----
    store,              \* the policy store (database) behind existingPolicies
    dedupPC,            \* position of DeduplicatePolicies
    existingPolicies,   \* argument existingPolicies (snapshot of the store)
    discoveredPolicies, \* argument discoveredPolicies
    dnsToIPs,           \* argument dnsToIPs
    idx,                \* index of the range loops (lines 294, 242)
    newPolicies,        \* local newPolicies (Egress: number of a backing array)
    egressArr,          \* backing arrays of the Spec.Egress slices of newPolicies
    labelCalls,         \* calls of libs.UpdateOutdatedLabel made by the current pass
    \* ---- convertors (plugin/cilium.go) ----
    flowArg,            \* argument of the last ConvertCiliumFlowToKnoxNetworkLog call
    flowRet,            \* what that call returned: [ok, panic, log]
    servicesArg,        \* argument services of the last policy conversion
    policyArg,          \* argument inPolicy of the last policy conversion
    policyRet           \* the CiliumNetworkPolicy that conversion returned

bufVars == <<CiliumFlows, CiliumFlowsMutex, StopChan, relayPC, relayFlow, stream, sent,
             connClosed, wgDone, drainPC, trigger, results, lockedOn, delivered>>
dedupVars == <<store, dedupPC, existingPolicies, discoveredPolicies, dnsToIPs, idx,
               newPolicies, egressArr, labelCalls>>
convVars == <<flowArg, flowRet, servicesArg, policyArg, policyRet>>
vars == <<bufVars, dedupVars, convVars>>

(***************************************************************************)
(* Bounds                                                                  *)
(***************************************************************************)
MaxFlows == 3
MaxTrigger == 2
MaxBatch == 2
MaxStore == 3

Callers == {"d1", "d2"}
Triggers == 0 .. MaxTrigger
FlowIds == 1 .. MaxFlows

\* number of positions of sequence s that hold x
Occurs(s, x) == Cardinality({i \in DOMAIN s : s[i] = x})

(***************************************************************************)
(* Deduplicator: data                                                      *)
(*                                                                         *)
(* A KnoxNetworkPolicy is [Metadata, Outdated, Spec], Metadata the string  *)
(* map with the keys name, type, rule and status, Spec = [Selector,        *)
(* Ingress, Egress].  Empty lists stand for Go's nil slices throughout.    *)
(* While a pass runs, the Egress field of an entry of newPolicies is a     *)
(* slice header: the number of the backing array in `egressArr` that the   *)
(* entry shares with the discovered policy it was copied from.             *)
(***************************************************************************)

\* strings.HasPrefix
HasPrefix(s, prefix) ==
    Len(s) >= Len(prefix) /\ SubSeq(s, 1, Len(prefix)) = prefix

\* strings.Contains
Contains(s, substr) ==
    \E i \in 1 .. (Len(s) - Len(substr) + 1) : SubSeq(s, i, i + Len(substr) - 1) = substr

\* strings.Split(s, sep)[0], sep one character
SplitFirst(s, sep) ==
    LET hits == {i \in 1 .. Len(s) : SubSeq(s, i, i) = sep}
    IN IF hits = {} THEN s
       ELSE SubSeq(s, 1, (CHOOSE i \in hits : \A j \in hits : i <= j) - 1)

\* libs.ContainsElement: some element of the slice is deeply equal to element
ContainsElement(slice, element) == \E i \in DOMAIN slice : slice[i] = element

Port(port) == [Port |-> port, Protocol |-> "tcp"]
Selector(app) == [MatchLabels |-> <<"app", app>>]
ToCIDRs(cidrs) == [ToPorts |-> <<>>, ToCIDRs |-> <<[CIDRs |-> cidrs]>>, ToFQDNs |-> <<>>]
ToFQDNs(names) == [ToPorts |-> <<>>, ToCIDRs |-> <<>>, ToFQDNs |-> <<[MatchNames |-> names]>>]
WithPorts(egress, ports) == [egress EXCEPT !.ToPorts = ports]

KnoxNetworkPolicy(name, type, rule, app, egress) ==
    [Metadata |-> [name |-> name, type |-> type, rule |-> rule, status |-> "latest"],
     Outdated |-> "",
     Spec |-> [Selector |-> Selector(app), Ingress |-> <<>>, Egress |-> egress]]

\* the policies a discovery cycle may hand to DeduplicatePolicies
DiscoveredPool ==
    { KnoxNetworkPolicy("autopol-egress-x", "egress", "toCIDRs+toPorts", "a",
                        <<WithPorts(ToCIDRs(<<"10.0.0.1/32">>), <<Port("443")>>)>>),
      KnoxNetworkPolicy("autopol-egress-x", "egress", "toCIDRs", "a",
                        <<ToCIDRs(<<"10.0.0.1/32">>)>>),
      KnoxNetworkPolicy("autopol-egress-y", "egress", "toCIDRs+toPorts", "a",
                        <<WithPorts(ToCIDRs(<<"10.0.0.2/32">>), <<Port("80")>>)>>),
      KnoxNetworkPolicy("autopol-egress-y", "egress", "toCIDRs", "a",
                        <<ToCIDRs(<<"10.0.0.2/32">>)>>),
      KnoxNetworkPolicy("autopol-egress-z", "egress", "toCIDRs+toPorts", "a",
                        <<WithPorts(ToCIDRs(<<"10.0.0.1/32", "10.0.0.2/32">>), <<Port("80")>>)>>),
      KnoxNetworkPolicy("autopol-egress-y", "egress", "toCIDRs+toPorts", "b",
                        <<WithPorts(ToCIDRs(<<"10.0.0.1/32">>), <<Port("80")>>)>>),
      KnoxNetworkPolicy("autopol-egress-x", "egress", "toFQDNs", "a",
                        <<ToFQDNs(<<"a.com">>)>>),
      KnoxNetworkPolicy("autopol-egress-z", "egress", "toFQDNs+toPorts", "a",
                        <<WithPorts(ToFQDNs(<<"a.com", "b.com">>), <<Port("443")>>)>>),
      KnoxNetworkPolicy("autopol-ingress-x", "ingress", "fromCIDRs", "a", <<>>),
      KnoxNetworkPolicy("autopol-egress-y", "egress", "toCIDRs", "a", <<>>) }

\* the DNS resolution maps a pass may be given: domain name -> resolved IPs
DnsMaps ==
    { ("a.com" :> <<"10.0.0.1">>) @@ ("b.com" :> <<"10.0.0.2">>),
      ("a.com" :> <<"10.0.0.1">>) @@ ("b.com" :> <<"10.0.0.1">>) }

\* what libs.RandSeq(10) may return
RandSeqs == {"qwertyuiop", "asdfghjklz"}

\* the orders in which a range over map m may visit its keys
KeyOrders(m) ==
    {o \in [1 .. Cardinality(DOMAIN m) -> DOMAIN m] :
        \A i, j \in DOMAIN o : i # j => o[i] # o[j]}

\* all sequences over S of length 1 .. n
RECURSIVE SeqsUpTo(_, _)
SeqsUpTo(S, n) ==
    IF n = 0 THEN {}
    ELSE LET shorter == SeqsUpTo(S, n - 1)
         IN {<<x>> : x \in S} \cup shorter \cup {Append(q, x) : q \in shorter, x \in S}

(***************************************************************************)
(* Flow buffer: GetCiliumFlowsFromHubble, one step per statement group     *)
(***************************************************************************)

\* line 680-681: a caller enters with some trigger; results := []*cilium.Flow{}
DrainCall(d) ==
    /\ drainPC[d] = "idle"
    /\ \E t \in Triggers : trigger' = [trigger EXCEPT ![d] = t]
    /\ results' = [results EXCEPT ![d] = <<>>]
    /\ drainPC' = [drainPC EXCEPT ![d] = "lock"]
    /\ UNCHANGED <<CiliumFlows, CiliumFlowsMutex, StopChan, relayPC, relayFlow, stream,
                   sent, connClosed, wgDone, lockedOn, delivered>>
    /\ UNCHANGED <<dedupVars, convVars>>

\* line 683: CiliumFlowsMutex.Lock(), which blocks while the mutex is held
DrainLock(d) ==
    /\ drainPC[d] = "lock"
    /\ CiliumFlowsMutex = "free"
    /\ CiliumFlowsMutex' = d
    /\ lockedOn' = [lockedOn EXCEPT ![d] = CiliumFlows]
    /\ drainPC' = [drainPC EXCEPT ![d] = "check"]
    /\ UNCHANGED <<CiliumFlows, StopChan, relayPC, relayFlow, stream, sent, connClosed,
                   wgDone, trigger, results, delivered>>
    /\ UNCHANGED <<dedupVars, convVars>>

\* line 690: len(CiliumFlows) < trigger
BelowTriggerLE(n, t) == n <= t

BelowTrigger(n, t) == n < t

\* lines 684-694: the two early returns (still holding the mutex here)
DrainCheck(d) ==
    /\ drainPC[d] = "check"
    /\ IF Len(CiliumFlows) = 0 \/ BelowTrigger(Len(CiliumFlows), trigger[d])
         THEN drainPC' = [drainPC EXCEPT ![d] = "unlockEarly"]
         ELSE drainPC' = [drainPC EXCEPT ![d] = "copy"]
    /\ UNCHANGED <<CiliumFlows, CiliumFlowsMutex, StopChan, relayPC, relayFlow, stream,
                   sent, connClosed, wgDone, trigger, results, lockedOn, delivered>>
    /\ UNCHANGED <<dedupVars, convVars>>

\* lines 686-687, 692-693: CiliumFlowsMutex.Unlock(); return results
DrainUnlockEarly(d) ==
    /\ drainPC[d] = "unlockEarly"
    /\ CiliumFlowsMutex' = "free"
    /\ lockedOn' = [lockedOn EXCEPT ![d] = <<>>]
    /\ drainPC' = [drainPC EXCEPT ![d] = "idle"]
    /\ trigger' = [trigger EXCEPT ![d] = 0]
    /\ UNCHANGED <<CiliumFlows, StopChan, relayPC, relayFlow, stream, sent, connClosed,
                   wgDone, results, delivered>>
    /\ UNCHANGED <<dedupVars, convVars>>

\* line 696: results = CiliumFlows
DrainCopy(d) ==
    /\ drainPC[d] = "copy"
    /\ results' = [results EXCEPT ![d] = CiliumFlows]
    /\ drainPC' = [drainPC EXCEPT ![d] = "reset"]
    /\ UNCHANGED <<CiliumFlows, CiliumFlowsMutex, StopChan, relayPC, relayFlow, stream,
                   sent, connClosed, wgDone, trigger, lockedOn, delivered>>
    /\ UNCHANGED <<dedupVars, convVars>>

DrainResetKeep(d) ==
    /\ drainPC[d] = "reset"
    /\ drainPC' = [drainPC EXCEPT ![d] = "unlock"]
    /\ UNCHANGED <<CiliumFlows, CiliumFlowsMutex, StopChan, relayPC, relayFlow, stream,
                   sent, connClosed, wgDone, trigger, results, lockedOn, delivered>>
    /\ UNCHANGED <<dedupVars, convVars>>

\* line 697: CiliumFlows = []*cilium.Flow{}
DrainReset(d) ==
    /\ drainPC[d] = "reset"
    /\ CiliumFlows' = <<>>
    /\ drainPC' = [drainPC EXCEPT ![d] = "unlock"]
    /\ UNCHANGED <<CiliumFlowsMutex, StopChan, relayPC, relayFlow, stream, sent,
                   connClosed, wgDone, trigger, results, lockedOn, delivered>>
    /\ UNCHANGED <<dedupVars, convVars>>

\* line 698: CiliumFlowsMutex.Unlock()
DrainUnlock(d) ==
    /\ drainPC[d] = "unlock"
    /\ CiliumFlowsMutex' = "free"
    /\ lockedOn' = [lockedOn EXCEPT ![d] = <<>>]
    /\ drainPC' = [drainPC EXCEPT ![d] = "log"]
    /\ UNCHANGED <<CiliumFlows, StopChan, relayPC, relayFlow, stream, sent, connClosed,
                   wgDone, trigger, results, delivered>>
    /\ UNCHANGED <<dedupVars, convVars>>

\* lines 700-711: read results[0] and results[len-1], log, return results
DrainReturn(d) ==
    /\ drainPC[d] = "log"
    /\ Len(results[d]) > 0
    /\ delivered' = [f \in DOMAIN delivered |-> delivered[f] + Occurs(results[d], f)]
    /\ results' = [results EXCEPT ![d] = <<>>]
    /\ drainPC' = [drainPC EXCEPT ![d] = "idle"]
    /\ trigger' = [trigger EXCEPT ![d] = 0]
    /\ UNCHANGED <<CiliumFlows, CiliumFlowsMutex, StopChan, relayPC, relayFlow, stream,
                   sent, connClosed, wgDone, lockedOn>>
    /\ UNCHANGED <<dedupVars, convVars>>

(***************************************************************************)
(* Flow buffer: StartHubbleRelay and its environment                       *)
(***************************************************************************)

\* lines 715-729, 752-754: connect, build the request, client.GetFlows
RelayStart ==
    /\ relayPC = "start"
    /\ \E ok \in BOOLEAN : relayPC' = IF ok THEN "select" ELSE "return"
    /\ UNCHANGED <<CiliumFlows, CiliumFlowsMutex, StopChan, relayFlow, stream, sent,
                   connClosed, wgDone, drainPC, trigger, results, lockedOn, delivered>>
    /\ UNCHANGED <<dedupVars, convVars>>

\* lines 731-735: select { case <-StopChan: return; default: ... }
RelaySelect ==
    /\ relayPC = "select"
    /\ relayPC' = IF StopChan = "closed" THEN "return" ELSE "recv"
    /\ UNCHANGED <<CiliumFlows, CiliumFlowsMutex, StopChan, relayFlow, stream, sent,
                   connClosed, wgDone, drainPC, trigger, results, lockedOn, delivered>>
    /\ UNCHANGED <<dedupVars, convVars>>

\* lines 736-745: stream.Recv() blocks until the stream has a message or an error
RelayRecv ==
    /\ relayPC = "recv"
    /\ stream # "none"
    /\ \/ /\ stream = "err"
          /\ relayPC' = "return"
          /\ relayFlow' = relayFlow
       \/ /\ stream = "flow"
          /\ relayPC' = "lock"
          /\ relayFlow' = sent
       \/ /\ stream = "other"
          /\ relayPC' = "select"
          /\ relayFlow' = relayFlow
    /\ stream' = "none"
    /\ UNCHANGED <<CiliumFlows, CiliumFlowsMutex, StopChan, sent, connClosed, wgDone,
                   drainPC, trigger, results, lockedOn, delivered>>
    /\ UNCHANGED <<dedupVars, convVars>>

\* line 746: CiliumFlowsMutex.Lock()
RelayLock ==
    /\ relayPC = "lock"
    /\ CiliumFlowsMutex = "free"
    /\ CiliumFlowsMutex' = "relay"
    /\ relayPC' = "append"
    /\ UNCHANGED <<CiliumFlows, StopChan, relayFlow, stream, sent, connClosed, wgDone,
                   drainPC, trigger, results, lockedOn, delivered>>
    /\ UNCHANGED <<dedupVars, convVars>>

\* line 747: CiliumFlows = append(CiliumFlows, flow)
RelayAppend ==
    /\ relayPC = "append"
    /\ CiliumFlows' = Append(CiliumFlows, relayFlow)
    /\ relayPC' = "unlock"
    /\ UNCHANGED <<CiliumFlowsMutex, StopChan, relayFlow, stream, sent, connClosed,
                   wgDone, drainPC, trigger, results, lockedOn, delivered>>
    /\ UNCHANGED <<dedupVars, convVars>>

\* line 748: CiliumFlowsMutex.Unlock()
RelayUnlock ==
    /\ relayPC = "unlock"
    /\ CiliumFlowsMutex' = "free"
    /\ relayFlow' = 0
    /\ relayPC' = "select"
    /\ UNCHANGED <<CiliumFlows, StopChan, stream, sent, connClosed, wgDone, drainPC,
                   trigger, results, lockedOn, delivered>>
    /\ UNCHANGED <<dedupVars, convVars>>

\* line 717: on return the deferred calls run last-in first-out: wg.Done()
RelayReturn ==
    /\ relayPC = "return"
    /\ wgDone' = TRUE
    /\ relayPC' = "close"
    /\ UNCHANGED <<CiliumFlows, CiliumFlowsMutex, StopChan, relayFlow, stream, sent,
                   connClosed, drainPC, trigger, results, lockedOn, delivered>>
    /\ UNCHANGED <<dedupVars, convVars>>

\* line 716: then the deferred conn.Close()
RelayConnClose ==
    /\ relayPC = "close"
    /\ connClosed' = TRUE
    /\ relayPC' = "done"
    /\ UNCHANGED <<CiliumFlows, CiliumFlowsMutex, StopChan, relayFlow, stream, sent,
                   wgDone, drainPC, trigger, results, lockedOn, delivered>>
    /\ UNCHANGED <<dedupVars, convVars>>

\* the Hubble stream produces its next message: a flow, another response
\* type, or a receive error
StreamDeliver ==
    /\ stream = "none"
    /\ \/ /\ sent < MaxFlows
          /\ stream' = "flow"
          /\ sent' = sent + 1
       \/ /\ stream' \in {"other", "err"}
          /\ sent' = sent
    /\ UNCHANGED <<CiliumFlows, CiliumFlowsMutex, StopChan, relayPC, relayFlow,
                   connClosed, wgDone, drainPC, trigger, results, lockedOn, delivered>>
    /\ UNCHANGED <<dedupVars, convVars>>

\* the owner of StopChan raises the cancellation signal
CloseStopChan ==
    /\ StopChan = "open"
    /\ StopChan' = "closed"
    /\ UNCHANGED <<CiliumFlows, CiliumFlowsMutex, relayPC, relayFlow, stream, sent,
                   connClosed, wgDone, drainPC, trigger, results, lockedOn, delivered>>
    /\ UNCHANGED <<dedupVars, convVars>>

RelayStep ==
    \/ RelayStart
    \/ RelaySelect
    \/ RelayRecv
    \/ RelayLock
    \/ RelayAppend
    \/ RelayUnlock
    \/ RelayReturn
    \/ RelayConnClose

BufInit ==
    /\ CiliumFlows = <<>>
    /\ CiliumFlowsMutex = "free"
    /\ StopChan = "open"
    /\ relayPC = "start"
    /\ relayFlow = 0
    /\ stream = "none"
    /\ sent = 0
    /\ connClosed = FALSE
    /\ wgDone = FALSE
    /\ drainPC = [d \in Callers |-> "idle"]
    /\ trigger = [d \in Callers |-> 0]
    /\ results = [d \in Callers |-> <<>>]
    /\ lockedOn = [d \in Callers |-> <<>>]
    /\ delivered = [f \in FlowIds |-> 0]

DedupIdle ==
    /\ store = <<>>
    /\ dedupPC = "idle"
    /\ existingPolicies = <<>>
    /\ discoveredPolicies = <<>>
    /\ dnsToIPs = <<>>
    /\ idx = 0
    /\ newPolicies = <<>>
    /\ egressArr = <<>>
    /\ labelCalls = <<>>

\* no conversion has been called yet
ConvIdle ==
    /\ flowArg = <<>>
    /\ flowRet = <<>>
    /\ servicesArg = <<>>
    /\ policyArg = <<>>
    /\ policyRet = <<>>

Init == BufInit /\ DedupIdle /\ ConvIdle

\* a caller that holds the mutex, or is past it, runs on to its return
DrainCritical(d) ==
    \/ DrainCheck(d)
    \/ DrainUnlockEarly(d)
    \/ DrainCopy(d)
    \/ DrainReset(d)
    \/ DrainUnlock(d)
    \/ DrainReturn(d)

Next ==
    \/ RelayStart
    \/ RelaySelect
    \/ RelayRecv
    \/ RelayLock
    \/ RelayAppend
    \/ RelayUnlock
    \/ RelayReturn
    \/ RelayConnClose
    \/ StreamDeliver
    \/ CloseStopChan
    \/ \E d \in Callers : DrainCall(d)
    \/ \E d \in Callers : DrainLock(d)
    \/ \E d \in Callers : DrainCheck(d)
    \/ \E d \in Callers : DrainUnlockEarly(d)
    \/ \E d \in Callers : DrainCopy(d)
    \/ \E d \in Callers : DrainReset(d)
    \/ \E d \in Callers : DrainUnlock(d)
    \/ \E d \in Callers : DrainReturn(d)

Spec == Init /\ [][Next]_vars

\* Goroutines are scheduled fairly and sync.Mutex does not starve a waiter;
\* the stream and the owner of StopChan are the environment and owe nothing.
FairSpec ==
    /\ Spec
    /\ WF_vars(RelayStep)
    /\ SF_vars(RelayLock)
    /\ \A d \in Callers : WF_vars(DrainCritical(d))

(***************************************************************************)
(* Deduplicator: the helpers of DeduplicatePolicies                        *)
(*                                                                         *)
(* A helper that can index an empty slice returns panic = TRUE there.  A   *)
(* helper that calls libs.UpdateOutdatedLabel returns the calls it made,   *)
(* each <<outdated policy name, latest policy name>>.                      *)
(***************************************************************************)

NoPolicy == [found |-> FALSE, panic |-> FALSE, policy |-> <<>>]

\* lines 24-32: the CIDR list check (both loops range over policy's own list)
IncludedCIDRs(policy) ==
    LET cidrs == policy.Spec.Egress[1].ToCIDRs[1].CIDRs
    IN \A i, j \in DOMAIN cidrs : cidrs[i] = cidrs[j]

RECURSIVE GetLatestCIDRsAnyStatusFrom(_, _, _)
GetLatestCIDRsAnyStatusFrom(existing, policy, i) ==
    IF i > Len(existing) THEN NoPolicy
    ELSE LET exist == existing[i]
         IN IF /\ exist.Spec.Selector = policy.Spec.Selector
               /\ exist.Metadata.type = policy.Metadata.type
               /\ Contains(exist.Metadata.rule, "toCIDRs")
              THEN IF Len(policy.Spec.Egress) = 0 \/ Len(policy.Spec.Egress[1].ToCIDRs) = 0
                     THEN [NoPolicy EXCEPT !.panic = TRUE]
                     ELSE IF IncludedCIDRs(policy)
                            THEN [found |-> TRUE, panic |-> FALSE, policy |-> exist]
                            ELSE GetLatestCIDRsAnyStatusFrom(existing, policy, i + 1)
              ELSE GetLatestCIDRsAnyStatusFrom(existing, policy, i + 1)

GetLatestCIDRsAnyStatus(existing, policy) == GetLatestCIDRsAnyStatusFrom(existing, policy, 1)

RECURSIVE GetLatestCIDRsFrom(_, _, _)
GetLatestCIDRsFrom(existing, policy, i) ==
    IF i > Len(existing) THEN NoPolicy
    ELSE LET exist == existing[i]
         IN IF /\ exist.Spec.Selector = policy.Spec.Selector
               /\ exist.Metadata.type = policy.Metadata.type
               /\ Contains(exist.Metadata.rule, "toCIDRs")
               /\ exist.Metadata.status = "latest"
              THEN IF Len(policy.Spec.Egress) = 0 \/ Len(policy.Spec.Egress[1].ToCIDRs) = 0
                     THEN [NoPolicy EXCEPT !.panic = TRUE]
                     ELSE IF IncludedCIDRs(policy)
                            THEN [found |-> TRUE, panic |-> FALSE, policy |-> exist]
                            ELSE GetLatestCIDRsFrom(existing, policy, i + 1)
              ELSE GetLatestCIDRsFrom(existing, policy, i + 1)

\* lines 13-41
GetLatestCIDRs(existing, policy) == GetLatestCIDRsFrom(existing, policy, 1)

\* lines 55-63: the match-name list check (again over policy's own list)
IncludedFQDNs(policy) ==
    LET names == policy.Spec.Egress[1].ToFQDNs[1].MatchNames
    IN \A i, j \in DOMAIN names : names[i] = names[j]

RECURSIVE GetLastedFQDNsFrom(_, _, _)
GetLastedFQDNsFrom(existing, policy, i) ==
    IF i > Len(existing) THEN NoPolicy
    ELSE LET exist == existing[i]
         IN IF /\ exist.Spec.Selector = policy.Spec.Selector
               /\ exist.Metadata.type = policy.Metadata.type
               /\ Contains(exist.Metadata.rule, "toFQDNs")
               /\ exist.Metadata.status = "latest"
              THEN IF Len(policy.Spec.Egress) = 0 \/ Len(policy.Spec.Egress[1].ToFQDNs) = 0
                     THEN [NoPolicy EXCEPT !.panic = TRUE]
                     ELSE IF IncludedFQDNs(policy)
                            THEN [found |-> TRUE, panic |-> FALSE, policy |-> exist]
                            ELSE GetLastedFQDNsFrom(existing, policy, i + 1)
              ELSE GetLastedFQDNsFrom(existing, policy, i + 1)

\* lines 44-72
GetLastedFQDNs(existing, policy) == GetLastedFQDNsFrom(existing, policy, 1)

\* lines 89-94, 122-127, 267-271: append the ports of `from` that toPorts lacks
RECURSIVE MergePorts(_, _)
MergePorts(toPorts, from) ==
    IF from = <<>> THEN toPorts
    ELSE MergePorts(IF ContainsElement(toPorts, Head(from)) THEN toPorts
                    ELSE Append(toPorts, Head(from)),
                    Tail(from))

Kept(policy) == [policy |-> policy, valid |-> TRUE, panic |-> FALSE, calls |-> <<>>]

\* lines 76-104 and 109-137, given what the lookup of the latest policy returned
UpdateWith(policy, latest) ==
    IF latest.panic THEN [Kept(policy) EXCEPT !.panic = TRUE]
    ELSE IF ~latest.found THEN Kept(policy)
    ELSE IF Len(latest.policy.Spec.Egress) = 0 THEN [Kept(policy) EXCEPT !.panic = TRUE]
    ELSE IF /\ Len(policy.Spec.Egress[1].ToPorts) = 0
            /\ Len(latest.policy.Spec.Egress[1].ToPorts) > 0
           THEN [Kept(policy) EXCEPT !.valid = FALSE]
    ELSE [policy |-> [policy EXCEPT !.Spec.Egress[1].ToPorts =
                          MergePorts(policy.Spec.Egress[1].ToPorts,
                                     latest.policy.Spec.Egress[1].ToPorts)],
          valid |-> TRUE,
          panic |-> FALSE,
          calls |-> <<<<latest.policy.Metadata.name, policy.Metadata.name>>>>]

\* lines 75-105
UpdateCIDR(policy, existing) ==
    IF policy.Metadata.type = "egress"
      THEN UpdateWith(policy, GetLatestCIDRs(existing, policy))
      ELSE Kept(policy)

\* lines 108-138
UpdateFQDN(policy, existing) ==
    IF policy.Metadata.type = "egress"
      THEN UpdateWith(policy, GetLastedFQDNs(existing, policy))
      ELSE Kept(policy)

IsExistedPolicyFirstOnly(existing, inPolicy) ==
    Len(existing) > 0 /\ existing[1].Spec = inPolicy.Spec

\* lines 159-167
IsExistedPolicy(existing, inPolicy) ==
    \E i \in DOMAIN existing : existing[i].Spec = inPolicy.Spec

\* lines 174-178
ExistNames(existing) == [i \in DOMAIN existing |-> existing[i].Metadata.name]

\* lines 170-193, rand being the last value libs.RandSeq returned in the loop
\* of line 182: the loop ends only with a name that no existing policy has
ReplaceDuplcatedName(existing, policy, rand) ==
    LET name == policy.Metadata.name
        renamed == IF HasPrefix(name, "autopol-egress")
                     THEN "autopol-egress" \o rand
                     ELSE "autopol-ingress" \o rand
    IN IF ContainsElement(ExistNames(existing), name)
         THEN [policy EXCEPT !.Metadata.name = renamed]
         ELSE policy

\* libs.UpdateOutdatedLabel(outdatedPolicy, latestPolicy) on the store: the
\* policies of that name get status outdated and the name that supersedes them
UpdateOutdatedLabel(policies, outdatedPolicy, latestPolicy) ==
    [i \in DOMAIN policies |->
        IF policies[i].Metadata.name = outdatedPolicy
          THEN [policies[i] EXCEPT !.Metadata.status = "outdated", !.Outdated = latestPolicy]
          ELSE policies[i]]

RECURSIVE UpdateOutdatedLabels(_, _)
UpdateOutdatedLabels(policies, calls) ==
    IF calls = <<>> THEN policies
    ELSE UpdateOutdatedLabels(UpdateOutdatedLabel(policies, calls[1][1], calls[1][2]),
                              Tail(calls))

(***************************************************************************)
(* Deduplicator: the loop body of DeduplicatePolicies (lines 294-322)      *)
(***************************************************************************)

\* outcome "skip": continue; "append": line 321; "panic": index out of range
LoopBody(policy, existing, rand) ==
    IF IsExistedPolicy(existing, policy)
      THEN [outcome |-> "skip", policy |-> policy, calls |-> <<>>]
      ELSE
        LET cidr == IF Contains(policy.Metadata.rule, "toCIDRs")
                      THEN UpdateCIDR(policy, existing)
                      ELSE Kept(policy)
        IN IF cidr.panic THEN [outcome |-> "panic", policy |-> policy, calls |-> <<>>]
           ELSE IF ~cidr.valid THEN [outcome |-> "skip", policy |-> policy, calls |-> <<>>]
           ELSE
             LET fqdn == IF Contains(cidr.policy.Metadata.rule, "toFQDNs")
                           THEN UpdateFQDN(cidr.policy, existing)
                           ELSE Kept(cidr.policy)
             IN IF fqdn.panic
                  THEN [outcome |-> "panic", policy |-> cidr.policy, calls |-> cidr.calls]
                ELSE IF ~fqdn.valid
                  THEN [outcome |-> "skip", policy |-> cidr.policy, calls |-> cidr.calls]
                ELSE [outcome |-> "append",
                      policy |-> ReplaceDuplcatedName(existing, fqdn.policy, rand),
                      calls |-> cidr.calls \o fqdn.calls]

(***************************************************************************)
(* Deduplicator: updateExistCIDRtoNewFQDN (lines 241-288)                  *)
(***************************************************************************)

\* the policy value an entry of newPolicies stands for
Deref(entry, arr) == [entry EXCEPT !.Spec.Egress = arr[entry.Spec.Egress]]

\* lines 196-210: copies of the entries with policy's selector and an FQDN rule
RECURSIVE ToFQDNsFrom(_, _, _, _, _)
ToFQDNsFrom(policy, np, arr, i, toFQDNs) ==
    IF i > Len(np) THEN toFQDNs
    ELSE LET newPolicy == np[i]
             egress == arr[newPolicy.Spec.Egress]
             seen == \E k \in DOMAIN toFQDNs : Deref(toFQDNs[k], arr) = Deref(newPolicy, arr)
         IN ToFQDNsFrom(policy, np, arr, i + 1,
                IF /\ policy.Spec.Selector = newPolicy.Spec.Selector
                   /\ \E e \in DOMAIN egress : Len(egress[e].ToFQDNs) > 0
                   /\ ~seen
                  THEN Append(toFQDNs, newPolicy)
                  ELSE toFQDNs)

getToFQDNsFromNewDiscoveredPolicies(policy, np, arr) ==
    ToFQDNsFrom(policy, np, arr, 1, <<>>)

\* lines 213-223, order being the order in which the range visits the map
getDomainNameFromMap(inIP, dns, order) ==
    LET hits == {k \in DOMAIN order : ContainsElement(dns[order[k]], inIP)}
    IN IF hits = {} THEN ""
       ELSE order[CHOOSE k \in hits : \A h \in hits : k <= h]

\* lines 226-238
existDomainNameInFQDN(domainName, fqdnPolicies, arr) ==
    LET lists(k) ==
            LET egress == arr[fqdnPolicies[k].Spec.Egress]
            IN \E e \in DOMAIN egress : \E f \in DOMAIN egress[e].ToFQDNs :
                   ContainsElement(egress[e].ToFQDNs[f].MatchNames, domainName)
        hits == {k \in DOMAIN fqdnPolicies : lists(k)}
    IN IF hits = {} THEN [matched |-> FALSE, policy |-> <<>>]
       ELSE [matched |-> TRUE,
             policy |-> fqdnPolicies[CHOOSE k \in hits : \A h \in hits : k <= h]]

\* lines 252-283: one CIDR of an existing policy; st = [np, arr, calls]
PromoteCIDR(existCIDR, toFQDNs, cidr, st, dns, order) ==
    LET ip == SplitFirst(cidr, "/")
        domainName == getDomainNameFromMap(ip, dns, order)
        found == existDomainNameInFQDN(domainName, toFQDNs, st.arr)
        fqdnPolicy == found.policy
        a == fqdnPolicy.Spec.Egress
        cidrToPorts == existCIDR.Spec.Egress[1].ToPorts
        call == <<existCIDR.Metadata.name, fqdnPolicy.Metadata.name>>
    IN IF ~found.matched THEN st
       ELSE IF Len(cidrToPorts) = 0 THEN [st EXCEPT !.calls = Append(@, call)]
       ELSE [np |-> [i \in DOMAIN st.np |->
                        IF st.np[i].Metadata.name = fqdnPolicy.Metadata.name
                          THEN fqdnPolicy ELSE st.np[i]],
             arr |-> [st.arr EXCEPT ![a][1].ToPorts = MergePorts(@, cidrToPorts)],
             calls |-> Append(st.calls, call)]

\* lines 251-284: the CIDRs of one ToCIDRs entry, from the c-th on
RECURSIVE PromoteCIDRs(_, _, _, _, _, _, _)
PromoteCIDRs(existCIDR, toFQDNs, t, c, st, dns, orders) ==
    LET cidrs == existCIDR.Spec.Egress[1].ToCIDRs[t].CIDRs
    IN IF c > Len(cidrs) THEN st
       ELSE PromoteCIDRs(existCIDR, toFQDNs, t, c + 1,
                PromoteCIDR(existCIDR, toFQDNs, cidrs[c], st, dns, orders[<<t, c>>]),
                dns, orders)

\* lines 247-285: the ToCIDRs entries of one existing policy, from the t-th on
RECURSIVE PromoteToCIDRs(_, _, _, _, _)
PromoteToCIDRs(existCIDR, t, st, dns, orders) ==
    IF t > Len(existCIDR.Spec.Egress[1].ToCIDRs) THEN st
    ELSE PromoteToCIDRs(existCIDR, t + 1,
             PromoteCIDRs(existCIDR,
                          getToFQDNsFromNewDiscoveredPolicies(existCIDR, st.np, st.arr),
                          t, 1, st, dns, orders),
             dns, orders)

\* the map lookups one existing policy causes: <<ToCIDRs entry, CIDR>>
Lookups(existCIDR) ==
    IF /\ existCIDR.Metadata.type = "egress"
       /\ Contains(existCIDR.Metadata.rule, "toCIDRs")
       /\ Len(existCIDR.Spec.Egress) > 0
      THEN LET toCIDRs == existCIDR.Spec.Egress[1].ToCIDRs
           IN UNION {{<<t, c>> : c \in DOMAIN toCIDRs[t].CIDRs} : t \in DOMAIN toCIDRs}
      ELSE {}

\* lines 242-287: one iteration of the loop over existingPolicies
PromoteExisting(existCIDR, st, dns, orders) ==
    IF existCIDR.Metadata.type = "egress" /\ Contains(existCIDR.Metadata.rule, "toCIDRs")
      THEN IF Len(existCIDR.Spec.Egress) = 0
             THEN [panic |-> TRUE, st |-> st]
             ELSE [panic |-> FALSE, st |-> PromoteToCIDRs(existCIDR, 1, st, dns, orders)]
      ELSE [panic |-> FALSE, st |-> st]

(***************************************************************************)
(* Deduplicator: reconciliation passes over the policy store               *)
(***************************************************************************)

\* a discovery cycle calls DeduplicatePolicies (line 291) with the policies
\* of the store, a discovered batch and a DNS map; line 292
DedupStart ==
    /\ dedupPC = "idle"
    /\ \E batch \in SeqsUpTo(DiscoveredPool, MaxBatch) :
         /\ Len(store) + Len(batch) <= MaxStore
         /\ discoveredPolicies' = batch
         /\ egressArr' = [k \in DOMAIN batch |-> batch[k].Spec.Egress]
    /\ \E dns \in DnsMaps : dnsToIPs' = dns
    /\ existingPolicies' = store
    /\ newPolicies' = <<>>
    /\ labelCalls' = <<>>
    /\ idx' = 1
    /\ dedupPC' = "loop"
    /\ UNCHANGED store
    /\ UNCHANGED <<bufVars, convVars>>

\* where the pass goes after an iteration of the loop of line 294
AfterLoop(i) ==
    IF i < Len(discoveredPolicies) THEN [pc |-> "loop", idx |-> i + 1]
    ELSE IF Len(existingPolicies) > 0 THEN [pc |-> "promote", idx |-> 1]
    ELSE [pc |-> "done", idx |-> 0]

\* lines 294-322: one iteration of the loop over discoveredPolicies
DedupLoop ==
    /\ dedupPC = "loop"
    /\ \E rand \in RandSeqs :
         LET body == LoopBody(discoveredPolicies[idx], existingPolicies, rand)
             next == AfterLoop(idx)
         IN /\ body.outcome = "append" =>
                  ~ContainsElement(ExistNames(existingPolicies), body.policy.Metadata.name)
            /\ labelCalls' = labelCalls \o body.calls
            /\ store' = UpdateOutdatedLabels(store, body.calls)
            /\ IF body.outcome = "panic"
                 THEN /\ dedupPC' = "panic"
                      /\ UNCHANGED <<idx, newPolicies, egressArr>>
                 ELSE /\ dedupPC' = next.pc
                      /\ idx' = next.idx
                      /\ IF body.outcome = "append"
                           THEN /\ newPolicies' =
                                     Append(newPolicies, [body.policy EXCEPT !.Spec.Egress = idx])
                                /\ egressArr' =
                                     [egressArr EXCEPT ![idx] = body.policy.Spec.Egress]
                           ELSE UNCHANGED <<newPolicies, egressArr>>
    /\ UNCHANGED <<existingPolicies, discoveredPolicies, dnsToIPs>>
    /\ UNCHANGED <<bufVars, convVars>>

\* lines 242-287: one iteration of the loop over existingPolicies; line 327
DedupPromote ==
    /\ dedupPC = "promote"
    /\ LET existCIDR == existingPolicies[idx]
       IN \E orders \in [Lookups(existCIDR) -> KeyOrders(dnsToIPs)] :
            LET r == PromoteExisting(existCIDR,
                         [np |-> newPolicies, arr |-> egressArr, calls |-> <<>>],
                         dnsToIPs, orders)
            IN /\ newPolicies' = r.st.np
               /\ egressArr' = r.st.arr
               /\ labelCalls' = labelCalls \o r.st.calls
               /\ store' = UpdateOutdatedLabels(store, r.st.calls)
               /\ IF r.panic
                    THEN dedupPC' = "panic" /\ idx' = idx
                    ELSE IF idx < Len(existingPolicies)
                           THEN dedupPC' = "promote" /\ idx' = idx + 1
                           ELSE dedupPC' = "done" /\ idx' = 0
    /\ UNCHANGED <<existingPolicies, discoveredPolicies, dnsToIPs>>
    /\ UNCHANGED <<bufVars, convVars>>

\* the policies DeduplicatePolicies returned (line 327)
Output == [i \in DOMAIN newPolicies |-> Deref(newPolicies[i], egressArr)]

\* the caller adds the returned policies to the store; the cycle is over
DedupStore ==
    /\ dedupPC = "done"
    /\ store' = store \o Output
    /\ dedupPC' = "idle"
    /\ existingPolicies' = <<>>
    /\ discoveredPolicies' = <<>>
    /\ dnsToIPs' = <<>>
    /\ idx' = 0
    /\ newPolicies' = <<>>
    /\ egressArr' = <<>>
    /\ labelCalls' = <<>>
    /\ UNCHANGED <<bufVars, convVars>>

DedupNext ==
    \/ DedupStart
    \/ DedupLoop
    \/ DedupPromote
    \/ DedupStore

DedupSpec == Init /\ [][DedupNext]_vars

(***************************************************************************)
(* Flow convertor: ConvertCiliumFlowToKnoxNetworkLog (lines 160-253)       *)
(*                                                                         *)
(* A *cilium.Flow is [Verdict, DropReason, TrafficDirection, Source,       *)
(* Destination, IP, L4, L7].  A pointer field is a sequence: <<>> is nil,  *)
(* <<r>> points to r.  Verdict, TrafficDirection and the L7 Type are the   *)
(* numbers of the protobuf enums (Verdict DROPPED = 2, L7 REQUEST = 1,     *)
(* RESPONSE = 2).  Source and Destination are never nil in a flow.         *)
(***************************************************************************)

\* strings.HasSuffix
HasSuffix(s, suffix) ==
    Len(s) >= Len(suffix) /\ SubSeq(s, Len(s) - Len(suffix) + 1, Len(s)) = suffix

\* strings.TrimSuffix
TrimSuffix(s, suffix) ==
    IF HasSuffix(s, suffix) THEN SubSeq(s, 1, Len(s) - Len(suffix)) ELSE s

\* TrafficDirection.String() of the protobuf enum
TrafficDirectionString(d) ==
    CASE d = 0 -> "TRAFFIC_DIRECTION_UNKNOWN"
      [] d = 1 -> "INGRESS"
      [] d = 2 -> "EGRESS"

\* ---- url.Parse (net/url), for URLs of printable ASCII characters whose
\* ---- path escapes stand for printable ASCII characters (not code 96)

\* c, a string of one character, is one of the characters of chars
OneOf(c, chars) == \E i \in 1 .. Len(chars) : SubSeq(chars, i, i) = c

\* strings.Index and strings.LastIndex for a one-character c; 0: not found
IndexOf(s, c) ==
    LET hits == {i \in 1 .. Len(s) : SubSeq(s, i, i) = c}
    IN IF hits = {} THEN 0 ELSE CHOOSE i \in hits : \A j \in hits : i <= j

LastIndexOf(s, c) ==
    LET hits == {i \in 1 .. Len(s) : SubSeq(s, i, i) = c}
    IN IF hits = {} THEN 0 ELSE CHOOSE i \in hits : \A j \in hits : i >= j

\* strings.Cut(s, c): the text before the first c (all of s without c)
CutBefore(s, c) == IF IndexOf(s, c) = 0 THEN s ELSE SubSeq(s, 1, IndexOf(s, c) - 1)

\* strings.Cut(s, c): the text after the first c (empty without c)
CutAfter(s, c) == IF IndexOf(s, c) = 0 THEN "" ELSE SubSeq(s, IndexOf(s, c) + 1, Len(s))

AsciiLetters == "abcdefghijklmnopqrstuvwxyzABCDEFGHIJKLMNOPQRSTUVWXYZ"
AsciiDigits == "0123456789"
HexDigits == "0123456789abcdefABCDEF"

\* the printable ASCII characters of the codes 32 .. 95 and 97 .. 126 (a
\* string cannot hold the character of code 96)
AsciiLow == " !\"#$%&'()*+,-./0123456789:;<=>?@ABCDEFGHIJKLMNOPQRSTUVWXYZ[\\]^_"
AsciiHigh == "abcdefghijklmnopqrstuvwxyz{|}~"

\* the character of a code in 32 .. 95 or 97 .. 126
CharOf(code) ==
    IF code <= 95 THEN SubSeq(AsciiLow, code - 31, code - 31)
                  ELSE SubSeq(AsciiHigh, code - 96, code - 96)

\* unhex
Unhex(c) ==
    LET k == IndexOf("0123456789abcdef", c)
    IN IF k > 0 THEN k - 1 ELSE IndexOf("0123456789ABCDEF", c) - 1

\* every % of s is followed by two hexadecimal digits
EscapesValid(s) ==
    \A i \in 1 .. Len(s) :
        SubSeq(s, i, i) = "%" =>
            /\ i + 2 <= Len(s)
            /\ OneOf(SubSeq(s, i + 1, i + 1), HexDigits)
            /\ OneOf(SubSeq(s, i + 2, i + 2), HexDigits)

\* unescape, for s with valid escapes: every %XX replaced by its character
RECURSIVE Unescape(_)
Unescape(s) ==
    IF Len(s) = 0 THEN ""
    ELSE IF SubSeq(s, 1, 1) = "%"
      THEN LET code == 16 * Unhex(SubSeq(s, 2, 2)) + Unhex(SubSeq(s, 3, 3))
           IN CharOf(code) \o Unescape(SubSeq(s, 4, Len(s)))
      ELSE SubSeq(s, 1, 1) \o Unescape(SubSeq(s, 2, Len(s)))

\* getScheme: [err, scheme, rest]
RECURSIVE getSchemeFrom(_, _)
getSchemeFrom(rawURL, i) ==
    IF i > Len(rawURL) THEN [err |-> FALSE, scheme |-> "", rest |-> rawURL]
    ELSE LET c == SubSeq(rawURL, i, i)
         IN IF OneOf(c, AsciiLetters) THEN getSchemeFrom(rawURL, i + 1)
            ELSE IF OneOf(c, AsciiDigits) \/ OneOf(c, "+-.")
              THEN IF i = 1 THEN [err |-> FALSE, scheme |-> "", rest |-> rawURL]
                            ELSE getSchemeFrom(rawURL, i + 1)
            ELSE IF c = ":"
              THEN IF i = 1 THEN [err |-> TRUE, scheme |-> "", rest |-> ""]
                            ELSE [err |-> FALSE,
                                  scheme |-> SubSeq(rawURL, 1, i - 1),
                                  rest |-> SubSeq(rawURL, i + 1, Len(rawURL))]
            ELSE [err |-> FALSE, scheme |-> "", rest |-> rawURL]

\* validOptionalPort
validOptionalPort(port) ==
    \/ port = ""
    \/ /\ SubSeq(port, 1, 1) = ":"
       /\ \A i \in 2 .. Len(port) : OneOf(SubSeq(port, i, i), AsciiDigits)

\* shouldEscape(c, encodeHost) is false: c may stand unescaped in a host
HostChar(c) ==
    \/ OneOf(c, AsciiLetters) \/ OneOf(c, AsciiDigits)
    \/ OneOf(c, "!$&'()*+,;=:[]<>\"-_.~")

\* an escape of the code v may stand in a host (mode "encodeHost": %25 or a
\* byte of 128 and above) or in a zone (mode "encodeZone": %25, a space or a
\* character a host may hold unescaped)
HostEscapeValid(v, mode) ==
    \/ v = 37
    \/ mode = "encodeHost" /\ v >= 128
    \/ /\ mode = "encodeZone"
       /\ v = 32 \/ (v > 32 /\ v < 127 /\ v # 96 /\ HostChar(CharOf(v)))

\* unescape(s, mode) succeeds, mode being "encodeHost" or "encodeZone"
HostCharsValid(s, mode) ==
    /\ EscapesValid(s)
    /\ \A i \in 1 .. Len(s) :
           IF SubSeq(s, i, i) = "%"
             THEN HostEscapeValid(16 * Unhex(SubSeq(s, i + 1, i + 1))
                                     + Unhex(SubSeq(s, i + 2, i + 2)), mode)
             ELSE HostChar(SubSeq(s, i, i))

\* strings.Index(s, substr); 0: not found
IndexOfStr(s, substr) ==
    LET hits == {i \in 1 .. (Len(s) - Len(substr) + 1) :
                    SubSeq(s, i, i + Len(substr) - 1) = substr}
    IN IF hits = {} THEN 0 ELSE CHOOSE i \in hits : \A j \in hits : i <= j

\* parseHost returns no error for a host that starts with "[", closeAt being
\* the place of its last "]" and zone the place of "%25" before it (0: none)
BracketHostValid(host, closeAt, zone) ==
    /\ closeAt > 0
    /\ validOptionalPort(SubSeq(host, closeAt + 1, Len(host)))
    /\ IF zone > 0
         THEN /\ HostCharsValid(SubSeq(host, 1, zone - 1), "encodeHost")
              /\ HostCharsValid(SubSeq(host, zone, closeAt - 1), "encodeZone")
              /\ HostCharsValid(SubSeq(host, closeAt, Len(host)), "encodeHost")
         ELSE HostCharsValid(host, "encodeHost")

\* parseHost returns no error
HostValid(host) ==
    IF HasPrefix(host, "[")
      THEN BracketHostValid(host, LastIndexOf(host, "]"),
                            IndexOfStr(SubSeq(host, 1, LastIndexOf(host, "]") - 1), "%25"))
      ELSE /\ LastIndexOf(host, ":") > 0 =>
                  validOptionalPort(SubSeq(host, LastIndexOf(host, ":"), Len(host)))
           /\ HostCharsValid(host, "encodeHost")

\* parseAuthority returns no error
AuthorityValid(authority) ==
    LET at == LastIndexOf(authority, "@")
        userinfo == SubSeq(authority, 1, at - 1)
    IN /\ HostValid(SubSeq(authority, at + 1, Len(authority)))
       /\ at > 0 =>
              /\ \A i \in 1 .. Len(userinfo) :
                     LET c == SubSeq(userinfo, i, i)
                     IN \/ OneOf(c, AsciiLetters) \/ OneOf(c, AsciiDigits)
                        \/ OneOf(c, "-._:~!$&'()*+,;=%@")
              /\ EscapesValid(userinfo)

URLError == [err |-> TRUE, Path |-> ""]

\* parse(rawURL, false), rawURL being the URL without its fragment
URLparse(rawURL) ==
    LET sch == getSchemeFrom(rawURL, 1)
        rest == CutBefore(sch.rest, "?")
        hasAuthority ==
            /\ sch.scheme # "" \/ ~HasPrefix(rest, "///")
            /\ HasPrefix(rest, "//")
        afterSlashes == SubSeq(rest, 3, Len(rest))
        authority == CutBefore(afterSlashes, "/")
        path == IF hasAuthority
                  THEN SubSeq(afterSlashes, Len(authority) + 1, Len(afterSlashes))
                  ELSE rest
    IN IF rawURL = "*" THEN [err |-> FALSE, Path |-> "*"]
       ELSE IF sch.err THEN URLError
       ELSE IF ~HasPrefix(rest, "/") /\ sch.scheme # "" THEN [err |-> FALSE, Path |-> ""]
       ELSE IF ~HasPrefix(rest, "/") /\ IndexOf(CutBefore(rest, "/"), ":") > 0 THEN URLError
       ELSE IF hasAuthority /\ ~AuthorityValid(authority) THEN URLError
       ELSE IF ~EscapesValid(path) THEN URLError
       ELSE [err |-> FALSE, Path |-> Unescape(path)]

\* url.Parse(u): [err, Path]; with err the *URL returned is nil
\* url.Parse after the cut at "#": parsed is the URL before it, frag the rest
URLParseFragment(parsed, frag) ==
    IF parsed.err THEN URLError
    ELSE IF ~EscapesValid(frag) THEN URLError
    ELSE parsed

URLParse(u) == URLParseFragment(URLparse(CutBefore(u, "#")), CutAfter(u, "#"))

\* lines 85-90
isSynFlagOnly(tcp) ==
    Len(tcp.Flags) > 0 /\ tcp.Flags[1].SYN /\ ~tcp.Flags[1].ACK

\* lines 92-102
getL4Ports(l4) ==
    IF Len(l4.TCP) > 0 THEN <<l4.TCP[1].SourcePort, l4.TCP[1].DestinationPort>>
    ELSE IF Len(l4.UDP) > 0 THEN <<l4.UDP[1].SourcePort, l4.UDP[1].DestinationPort>>
    ELSE IF Len(l4.ICMPv4) > 0 THEN <<l4.ICMPv4[1].Type, l4.ICMPv4[1].Code>>
    ELSE <<-1, -1>>

\* lines 104-114
getProtocol(l4) ==
    IF Len(l4.TCP) > 0 THEN 6
    ELSE IF Len(l4.UDP) > 0 THEN 17
    ELSE IF Len(l4.ICMPv4) > 0 THEN 1
    ELSE 0

\* lines 128-136
getReservedLabelIfExist(labels) ==
    LET hits == {i \in DOMAIN labels : HasPrefix(labels[i], "reserved:")}
    IN IF hits = {} THEN ""
       ELSE labels[CHOOSE i \in hits : \A j \in hits : i <= j]

\* lines 138-154: [panic, method, path]; the error of url.Parse is dropped
\* (line 142) and u.Path (line 143) reads through the nil *URL it came with
\* lines 143-151: u being what url.Parse gave at line 142
getHTTPOf(method, u) ==
    [panic |-> u.err,
     method |-> method,
     path |-> IF HasPrefix(u.Path, "//") THEN SubSeq(u.Path, 2, Len(u.Path)) ELSE u.Path]

getHTTP(flow) ==
    IF Len(flow.L7) > 0 /\ Len(flow.L7[1].Http) > 0 /\ flow.L7[1].Type = 1
      THEN getHTTPOf(flow.L7[1].Http[1].Method, URLParse(flow.L7[1].Http[1].Url))
      ELSE [panic |-> FALSE, method |-> "", path |-> ""]

\* line 161: types.KnoxNetworkLog{}
EmptyLog ==
    [Action |-> "", Direction |-> "", SrcNamespace |-> "", DstNamespace |-> "",
     SrcPodName |-> "", DstPodName |-> "", SrcIP |-> "", DstIP |-> "",
     Protocol |-> 0, SynFlag |-> FALSE, SrcPort |-> 0, DstPort |-> 0,
     HTTPMethod |-> "", HTTPPath |-> "", DNSRes |-> "", DNSResIPs |-> <<>>]

\* what a call gives back: `return log, ok`, or a nil-pointer panic
Return(log, ok) == [ok |-> ok, panic |-> FALSE, log |-> log]
NilPanic == [ok |-> FALSE, panic |-> TRUE, log |-> EmptyLog]

\* lines 168-189: action, direction and namespaces
LogHead(ciliumFlow) ==
    [EmptyLog EXCEPT
        !.Action = IF ciliumFlow.Verdict = 2 THEN "deny" ELSE "allow",
        !.Direction = TrafficDirectionString(ciliumFlow.TrafficDirection),
        !.SrcNamespace = IF ciliumFlow.Source.Namespace = ""
                           THEN getReservedLabelIfExist(ciliumFlow.Source.Labels)
                           ELSE ciliumFlow.Source.Namespace,
        !.DstNamespace = IF ciliumFlow.Destination.Namespace = ""
                           THEN getReservedLabelIfExist(ciliumFlow.Destination.Labels)
                           ELSE ciliumFlow.Destination.Namespace]

\* lines 224-252: the L7 part, log holding the L3 and L4 data and http what
\* getHTTP gave at line 225
LogL7Of(ciliumFlow, log, http) ==
    LET isHTTP == Len(ciliumFlow.L7) > 0 /\ Len(ciliumFlow.L7[1].Http) > 0
        isDNS == Len(ciliumFlow.L7) > 0 /\ Len(ciliumFlow.L7[1].Dns) > 0
        log5 == IF isHTTP THEN [log EXCEPT !.HTTPMethod = http.method, !.HTTPPath = http.path]
                          ELSE log
    IN IF isHTTP /\ http.panic THEN NilPanic
       ELSE IF isHTTP /\ http.method = "" /\ http.path = "" THEN Return(log5, FALSE)
       ELSE IF isDNS /\ ciliumFlow.L7[1].Type = 2 /\ Len(ciliumFlow.L7[1].Dns[1].Ips) > 0
         THEN IF HasSuffix(ciliumFlow.L7[1].Dns[1].Query, "svc.cluster.local.")
                THEN Return(log5, FALSE)
                ELSE Return([log5 EXCEPT
                                !.DNSRes = TrimSuffix(ciliumFlow.L7[1].Dns[1].Query, "."),
                                !.DNSResIPs = ciliumFlow.L7[1].Dns[1].Ips],
                            TRUE)
       ELSE Return(log5, TRUE)

\* lines 224-252
LogL7(ciliumFlow, log) == LogL7Of(ciliumFlow, log, getHTTP(ciliumFlow))

\* lines 160-253
ConvertCiliumFlowToKnoxNetworkLog(ciliumFlow) ==
    IF ciliumFlow.Verdict = 2 /\ ciliumFlow.DropReason = 181 THEN Return(EmptyLog, FALSE)
    \* lines 192-199 read ciliumFlow.IP.Source / .Destination before the nil test
    ELSE IF /\ Len(ciliumFlow.IP) = 0
            /\ (ciliumFlow.Source.PodName = "" \/ ciliumFlow.Destination.PodName = "")
      THEN NilPanic
    ELSE
      LET log2 == [LogHead(ciliumFlow) EXCEPT
                      !.SrcPodName = IF ciliumFlow.Source.PodName = ""
                                       THEN ciliumFlow.IP[1].Source
                                       ELSE ciliumFlow.Source.PodName,
                      !.DstPodName = IF ciliumFlow.Destination.PodName = ""
                                       THEN ciliumFlow.IP[1].Destination
                                       ELSE ciliumFlow.Destination.PodName]
      IN IF Len(ciliumFlow.IP) = 0 THEN Return(log2, FALSE)
         ELSE IF Len(ciliumFlow.L4) = 0
           THEN Return([log2 EXCEPT !.SrcIP = ciliumFlow.IP[1].Source,
                                    !.DstIP = ciliumFlow.IP[1].Destination], FALSE)
         ELSE
           LET l4 == ciliumFlow.L4[1]
               ports == getL4Ports(l4)
           IN LogL7(ciliumFlow,
                    [log2 EXCEPT !.SrcIP = ciliumFlow.IP[1].Source,
                                 !.DstIP = ciliumFlow.IP[1].Destination,
                                 !.Protocol = getProtocol(l4),
                                 !.SynFlag = (getProtocol(l4) = 6 /\ isSynFlagOnly(l4.TCP[1])),
                                 !.SrcPort = ports[1],
                                 !.DstPort = ports[2]])

\* ---- the raw flows of the model ----

Endpoints ==
    { [Namespace |-> "default", PodName |-> "pod-a", Labels |-> <<"k8s:app=a">>],
      [Namespace |-> "", PodName |-> "", Labels |-> <<"k8s:x", "reserved:world">>] }

IPs == { <<>>, <<[Source |-> "10.0.0.1", Destination |-> "10.0.0.2"]>> }

NoL4 == [TCP |-> <<>>, UDP |-> <<>>, ICMPv4 |-> <<>>]

TCP(flags) == [SourcePort |-> 40000, DestinationPort |-> 443, Flags |-> flags]

L4s ==
    { <<>>,
      <<NoL4>>,
      <<[NoL4 EXCEPT !.TCP = <<TCP(<<[SYN |-> TRUE, ACK |-> FALSE]>>)>>]>>,
      <<[NoL4 EXCEPT !.TCP = <<TCP(<<[SYN |-> TRUE, ACK |-> TRUE]>>)>>]>>,
      <<[NoL4 EXCEPT !.TCP = <<TCP(<<>>)>>]>>,
      <<[NoL4 EXCEPT !.UDP = <<[SourcePort |-> 40000, DestinationPort |-> 53]>>]>>,
      <<[NoL4 EXCEPT !.ICMPv4 = <<[Type |-> 8, Code |-> 0]>>]>> }

HTTP(type, method, url) ==
    <<[Type |-> type, Http |-> <<[Method |-> method, Url |-> url]>>, Dns |-> <<>>]>>

DNS(type, query, ips) ==
    <<[Type |-> type, Http |-> <<>>, Dns |-> <<[Query |-> query, Ips |-> ips]>>]>>

L7s ==
    { <<>>,
      HTTP(1, "GET", "/a"),
      HTTP(1, "GET", "http://h//a"),
      HTTP(1, "GET", "https://h/a%20b?x=1#top"),
      HTTP(1, "GET", "%zz"),
      HTTP(1, "GET", "http://[fe80::1%25en%30]/a"),
      HTTP(2, "", ""),
      DNS(1, "a.com.", <<>>),
      DNS(2, "a.com.", <<"10.0.0.2">>),
      DNS(2, "a.com.", <<>>),
      DNS(2, "web.default.svc.cluster.local.", <<"10.0.0.2">>),
      DNS(2, "web.default.svc.cluster.local.", <<>>) }

Verdicts == { <<1, 0>>, <<2, 0>>, <<2, 181>> }

RawFlows ==
    { [Verdict |-> v[1], DropReason |-> v[2], TrafficDirection |-> d,
       Source |-> src, Destination |-> dst, IP |-> ip, L4 |-> l4, L7 |-> l7] :
        v \in Verdicts, d \in {1, 2}, src \in Endpoints, dst \in Endpoints,
        ip \in IPs, l4 \in L4s, l7 \in L7s }

\* the discovery cycle runs one conversion at a time
ConvIdleNow == Len(flowArg) = 0 /\ Len(policyArg) = 0

\* a record of the flow store is handed to the convertor (lines 332, 357)
ConvertFlow ==
    /\ ConvIdleNow
    /\ \E f \in RawFlows :
         /\ flowArg' = <<f>>
         /\ flowRet' = <<ConvertCiliumFlowToKnoxNetworkLog(f)>>
    /\ UNCHANGED <<servicesArg, policyArg, policyRet>>
    /\ UNCHANGED <<bufVars, dedupVars>>

(***************************************************************************)
(* Policy convertor: ConvertKnoxNetworkPolicyToCiliumPolicy (lines 432-650)*)
(*                                                                         *)
(* A types.Service is [Namespace, ServiceName, ServicePort, Protocol].     *)
(* A map is the sequence of its <<key, value>> pairs, nil the empty one.   *)
(* An egress entry of a policy may carry the fields MatchLabels and        *)
(* ToHTTPs next to ToPorts, ToCIDRs and ToFQDNs; a field it lacks is nil.  *)
(* The policies of the model have no ingress, entity or service rules.     *)
(***************************************************************************)

\* strings.ToUpper, for ASCII letters
UpperOf ==
    [c \in {"a", "b", "c", "d", "e", "f", "g", "h", "i", "j", "k", "l", "m", "n", "o",
            "p", "q", "r", "s", "t", "u", "v", "w", "x", "y", "z"} |->
        CASE c = "a" -> "A" [] c = "b" -> "B" [] c = "c" -> "C" [] c = "d" -> "D"
          [] c = "e" -> "E" [] c = "f" -> "F" [] c = "g" -> "G" [] c = "h" -> "H"
          [] c = "i" -> "I" [] c = "j" -> "J" [] c = "k" -> "K" [] c = "l" -> "L"
          [] c = "m" -> "M" [] c = "n" -> "N" [] c = "o" -> "O" [] c = "p" -> "P"
          [] c = "q" -> "Q" [] c = "r" -> "R" [] c = "s" -> "S" [] c = "t" -> "T"
          [] c = "u" -> "U" [] c = "v" -> "V" [] c = "w" -> "W" [] c = "x" -> "X"
          [] c = "y" -> "Y" [] c = "z" -> "Z"]

RECURSIVE ToUpper(_)
ToUpper(s) ==
    IF Len(s) = 0 THEN ""
    ELSE LET c == SubSeq(s, 1, 1)
         IN (IF c \in DOMAIN UpperOf THEN UpperOf[c] ELSE c) \o ToUpper(SubSeq(s, 2, Len(s)))

\* strconv.Itoa, for n >= 0
Digits == <<"0", "1", "2", "3", "4", "5", "6", "7", "8", "9">>

RECURSIVE Itoa(_)
Itoa(n) ==
    IF n < 10 THEN Digits[n + 1] ELSE Itoa(n \div 10) \o Digits[(n % 10) + 1]

\* types.CiliumPort of a port and a protocol
CiliumPort(port, protocol) == [Port |-> port, Protocol |-> ToUpper(protocol)]

\* lines 398-404: a port for every kube-system/kube-dns entry of the catalog
RECURSIVE SearchDNS(_, _)
SearchDNS(svcs, ports) ==
    IF svcs = <<>> THEN ports
    ELSE LET svc == Head(svcs)
         IN SearchDNS(Tail(svcs),
                IF svc.Namespace = "kube-system" /\ svc.ServiceName = "kube-dns"
                  THEN Append(ports, CiliumPort(Itoa(svc.ServicePort), svc.Protocol))
                  ELSE ports)

\* lines 380-412: [ToEndpoints, ToPorts]
getCoreDNSEndpoint(svcs) ==
    LET matchLabel == << <<"k8s:io.kubernetes.pod.namespace", "kube-system">>,
                         <<"k8s-app", "kube-dns">> >>
        ports == IF Len(svcs) = 0
                   THEN <<CiliumPort(Itoa(53), "UDP")>>
                   ELSE SearchDNS(svcs, <<>>)
    IN [ToEndpoints |-> <<matchLabel>>,
        ToPorts |-> <<[Ports |-> ports,
                       Rules |-> << <<"dns", <<[matchPattern |-> "*"]>> >> >>]>>]

\* lines 414-430
buildNewCiliumNetworkPolicy(knoxPolicy) ==
    [APIVersion |-> "cilium.io/v2",
     Kind |-> "CiliumNetworkPolicy",
     Metadata |-> << <<"name", knoxPolicy.Metadata.name>> >>,
     Spec |-> [Selector |-> [MatchLabels |-> knoxPolicy.Spec.Selector.MatchLabels],
               Egress |-> <<>>,
               Ingress |-> <<>>]]

\* field name of record r, nil when r has no such field
FieldOf(r, name) == IF name \in DOMAIN r THEN r[name] ELSE <<>>

\* the types.CiliumEgress{} of line 443
NoCiliumEgress == [ToEndpoints |-> <<>>, ToPorts |-> <<>>, ToCIDRs |-> <<>>, ToFQDNs |-> <<>>]

\* the ports of toPorts as CiliumPorts, those without a number skipped or not
RECURSIVE CiliumPorts(_, _)
CiliumPorts(toPorts, skipEmpty) ==
    IF toPorts = <<>> THEN <<>>
    ELSE (IF skipEmpty /\ Head(toPorts).Port = "" THEN <<>>
          ELSE <<CiliumPort(Head(toPorts).Port, Head(toPorts).Protocol)>>)
         \o CiliumPorts(Tail(toPorts), skipEmpty)

\* the port list that holds ports, nil when no port was ever appended
PortList(ports, rules) ==
    IF ports = <<>> THEN <<>> ELSE <<[Ports |-> ports, Rules |-> rules]>>

\* lines 447-481: the label-based rule
LabelEgress(knoxEgress) ==
    LET toHTTPs == FieldOf(knoxEgress, "ToHTTPs")
        httpRules == [i \in DOMAIN toHTTPs |->
                         [method |-> toHTTPs[i].Method, path |-> toHTTPs[i].Path]]
    IN [NoCiliumEgress EXCEPT
           !.ToEndpoints = <<knoxEgress.MatchLabels>>,
           !.ToPorts = PortList(CiliumPorts(knoxEgress.ToPorts, TRUE),
                                IF Len(toHTTPs) > 0 THEN << <<"http", httpRules>> >>
                                                    ELSE <<>>)]

\* lines 482-507: the CIDR rule; every ToCIDRs entry overwrites the CIDR list
\* and appends the ports again
RECURSIVE CIDREgress(_, _, _)
CIDREgress(knoxEgress, i, ciliumEgress) ==
    IF i > Len(knoxEgress.ToCIDRs) THEN ciliumEgress
    ELSE CIDREgress(knoxEgress, i + 1,
             [ciliumEgress EXCEPT
                 !.ToCIDRs = knoxEgress.ToCIDRs[i].CIDRs,
                 !.ToPorts = PortList((IF @ = <<>> THEN <<>> ELSE @[1].Ports)
                                          \o CiliumPorts(knoxEgress.ToPorts, TRUE),
                                      <<>>)])

\* lines 540-572: the entries appended for the FQDN rules of one egress entry
FQDNEgresses(knoxEgress) ==
    [i \in DOMAIN knoxEgress.ToFQDNs |->
        [NoCiliumEgress EXCEPT
            !.ToFQDNs = [k \in DOMAIN knoxEgress.ToFQDNs[i].MatchNames |->
                            << <<"matchName", knoxEgress.ToFQDNs[i].MatchNames[k]>> >>],
            !.ToPorts = PortList(CiliumPorts(knoxEgress.ToPorts, FALSE), <<>>)]]

\* lines 441-575: the entries one knoxEgress adds to ciliumPolicy.Spec.Egress
EgressOf(svcs, knoxEgress) ==
    IF FieldOf(knoxEgress, "MatchLabels") # <<>>
      THEN <<LabelEgress(knoxEgress)>>
    ELSE IF Len(knoxEgress.ToCIDRs) > 0
      THEN <<CIDREgress(knoxEgress, 1, NoCiliumEgress)>>
    ELSE IF Len(knoxEgress.ToFQDNs) > 0
      THEN LET dns == getCoreDNSEndpoint(svcs)
           IN Append(FQDNEgresses(knoxEgress),
                     [NoCiliumEgress EXCEPT !.ToEndpoints = dns.ToEndpoints,
                                            !.ToPorts = dns.ToPorts])
    ELSE <<NoCiliumEgress>>

RECURSIVE EgressesFrom(_, _, _)
EgressesFrom(svcs, egress, i) ==
    IF i > Len(egress) THEN <<>>
    ELSE EgressOf(svcs, egress[i]) \o EgressesFrom(svcs, egress, i + 1)

\* lines 432-650
ConvertKnoxNetworkPolicyToCiliumPolicy(svcs, knoxPolicy) ==
    [buildNewCiliumNetworkPolicy(knoxPolicy) EXCEPT
        !.Spec.Egress = EgressesFrom(svcs, knoxPolicy.Spec.Egress, 1)]

\* ---- the service catalogs and policies of the model ----

MaxServices == 2

Service(namespace, name, port, protocol) ==
    [Namespace |-> namespace, ServiceName |-> name, ServicePort |-> port,
     Protocol |-> protocol]

ServicePool ==
    { Service("kube-system", "kube-dns", 53, "udp"),
      Service("kube-system", "kube-dns", 9153, "tcp"),
      Service("default", "web", 80, "tcp"),
      Service("default", "kube-dns", 53, "udp") }

Catalogs == {<<>>} \cup SeqsUpTo(ServicePool, MaxServices)

\* the policies handed to the convertor: discovered policies, and a
\* label-based one with an HTTP rule and a port without a number
PolicyPool ==
    { p \in DiscoveredPool :
        /\ p.Metadata.name \in {"autopol-egress-x", "autopol-egress-z"}
        /\ Len(p.Spec.Egress) > 0 /\ Len(p.Spec.Egress[1].ToPorts) > 0 }
    \cup
    { p \in DiscoveredPool : Contains(p.Metadata.rule, "toFQDNs") }
    \cup
    { KnoxNetworkPolicy("autopol-egress-l", "egress", "matchLabels+toPorts+toHTTPs", "a",
          <<[MatchLabels |-> <<"app", "b">>,
             ToPorts |-> <<Port("80"), Port("")>>,
             ToHTTPs |-> <<[Method |-> "GET", Path |-> "/a"]>>,
             ToCIDRs |-> <<>>, ToFQDNs |-> <<>>]>>) }

\* lines 652-661: a policy is converted with the catalog of the cluster
ConvertPolicy ==
    /\ ConvIdleNow
    /\ \E svcs \in Catalogs : \E p \in PolicyPool :
         /\ servicesArg' = svcs
         /\ policyArg' = <<p>>
         /\ policyRet' = <<ConvertKnoxNetworkPolicyToCiliumPolicy(svcs, p)>>
    /\ UNCHANGED <<flowArg, flowRet>>
    /\ UNCHANGED <<bufVars, dedupVars>>

\* the caller has taken the result (lines 332-340, 357-359, 656-657)
ConvReturn ==
    /\ ~ConvIdleNow
    /\ flowArg' = <<>>
    /\ flowRet' = <<>>
    /\ servicesArg' = <<>>
    /\ policyArg' = <<>>
    /\ policyRet' = <<>>
    /\ UNCHANGED <<bufVars, dedupVars>>

ConvNext ==
    \/ ConvertFlow
    \/ ConvertPolicy
    \/ ConvReturn

ConvSpec == Init /\ [][ConvNext]_vars

(***************************************************************************)
(* Claims about the flow buffer                                            *)
(***************************************************************************)

\* flow f has been appended to the buffer by the receive loop (line 747)
Ingested(f) ==
    /\ f <= sent
    /\ ~(f = sent /\ stream = "flow")
    /\ ~(f = relayFlow /\ relayPC \in {"lock", "append"})

\* number of places that hold flow f: the buffer, the result a caller has
\* swapped out of the buffer and is about to return, and the results already
\* returned (between lines 696 and 697 `results` is still the buffer itself)
Holders(f) ==
    LET inReturn(d) == IF drainPC[d] \in {"unlock", "log"} THEN Occurs(results[d], f) ELSE 0
        RECURSIVE Sum(_)
        Sum(S) == IF S = {} THEN 0
                  ELSE LET d == CHOOSE x \in S : TRUE IN inReturn(d) + Sum(S \ {d})
    IN Occurs(CiliumFlows, f) + Sum(Callers) + delivered[f]

\* C1: under every interleaving of the receive loop's append and the drain
\* calls, every ingested flow is in exactly one place: still in the buffer
\* or in the result of exactly one drain call; a flow not yet ingested is in
\* none.
C1_NoFlowLostOrDuplicated ==
    \A f \in FlowIds : Holders(f) = IF Ingested(f) THEN 1 ELSE 0

\* C1 witness: one flow has been returned by a drain call, another caller is
\* about to return a second one, and a third flow is waiting in the buffer.
C1_Witness ==
    /\ \E f \in FlowIds : delivered[f] = 1
    /\ \E d \in Callers : drainPC[d] = "log" /\ Len(results[d]) > 0
    /\ Len(CiliumFlows) > 0

\* s lists flow ids in arrival order
ArrivalOrder(s) == \A i, j \in DOMAIN s : i < j => s[i] < s[j]

\* C2: when a drain call is about to release the mutex, it holds the whole
\* buffer content it found, in arrival order, and the buffer is empty if that
\* content had at least `trigger` flows; otherwise its result is empty and the
\* buffer is exactly what it found.
C2_DrainAllOrNothing ==
    \A d \in Callers :
        drainPC[d] \in {"unlock", "unlockEarly"} =>
            /\ ArrivalOrder(lockedOn[d])
            /\ IF Len(lockedOn[d]) >= trigger[d]
                 THEN results[d] = lockedOn[d] /\ CiliumFlows = <<>>
                 ELSE results[d] = <<>> /\ CiliumFlows = lockedOn[d]

\* C2 witness: after an earlier drain returned a flow, a call with trigger 2
\* finds one flow in the buffer and is about to return empty-handed.
C2_Witness ==
    \E d \in Callers :
        /\ drainPC[d] = "unlockEarly"
        /\ trigger[d] = 2
        /\ Len(CiliumFlows) = 1
        /\ \E f \in FlowIds : delivered[f] = 1

\* C3: once StopChan is raised, or the stream has returned a receive error,
\* the relay eventually terminates with the connection closed and its
\* wait-group slot released, whatever the receive loop was doing.
C3_RelayTerminates ==
    (StopChan = "closed") ~> (relayPC = "done" /\ connClosed /\ wgDone)

(***************************************************************************)
(* Claims about the deduplicator                                           *)
(***************************************************************************)

Range(q) == {q[i] : i \in DOMAIN q}

InPass == dedupPC \in {"loop", "promote", "done"}

\* the calls of libs.UpdateOutdatedLabel the step being taken makes
NewCalls == SubSeq(labelCalls', Len(labelCalls) + 1, Len(labelCalls'))

\* the step being taken is an iteration of the loop of line 294, on policy d,
\* that runs to its end
LoopStepOn(d) == dedupPC = "loop" /\ d = discoveredPolicies[idx] /\ dedupPC' # "panic"

\* some existing policy has a spec structurally equal to d's
ExactDuplicate(d) == \E e \in Range(existingPolicies) : e.Spec = d.Spec

\* d is an egress policy whose first egress entry starts with a CIDR list
\* (kind = "toCIDRs") or a match-name list (kind = "toFQDNs")
HasList(d, kind) ==
    /\ d.Metadata.type = "egress"
    /\ Contains(d.Metadata.rule, kind)
    /\ Len(d.Spec.Egress) > 0
    /\ IF kind = "toCIDRs" THEN Len(d.Spec.Egress[1].ToCIDRs) > 0
                           ELSE Len(d.Spec.Egress[1].ToFQDNs) > 0

ListSet(d, kind) ==
    IF kind = "toCIDRs" THEN Range(d.Spec.Egress[1].ToCIDRs[1].CIDRs)
                        ELSE Range(d.Spec.Egress[1].ToFQDNs[1].MatchNames)

\* existing policy e is the kind of policy that discovered policy d is to be
\* consolidated with: latest, same selector, same type, same rule kind, and
\* the same CIDR (match-name) set
ConsolidatesWith(e, d, kind) ==
    /\ HasList(d, kind)
    /\ HasList(e, kind)
    /\ e.Metadata.status = "latest"
    /\ e.Spec.Selector = d.Spec.Selector
    /\ e.Metadata.type = d.Metadata.type
    /\ ListSet(e, kind) = ListSet(d, kind)

\* a policy handled by step 2 alone: CIDR rule kind, no FQDN rule kind
CIDROnly(d) ==
    /\ HasList(d, "toCIDRs")
    /\ ~Contains(d.Metadata.rule, "toFQDNs")
    /\ ~ExactDuplicate(d)

\* the step appends one policy to newPolicies, with egress entries eg
Appends(eg) ==
    /\ Len(newPolicies') = Len(newPolicies) + 1
    /\ egressArr'[idx] = eg

\* C4: the output never holds a discovered policy whose spec is structurally
\* equal to the spec of an existing policy (an entry of the output is traced
\* to the discovered policy whose rule list it carries).
C4_NoExactDuplicateInOutput ==
    InPass =>
        \A i \in DOMAIN newPolicies :
            \A e \in DOMAIN existingPolicies :
                existingPolicies[e].Spec # discoveredPolicies[newPolicies[i].Spec.Egress].Spec

\* C4 witness: a pass has returned; its batch held a structural copy of an
\* existing policy next to a policy that was put into the output.
C4_Witness ==
    /\ dedupPC = "done"
    /\ Len(newPolicies) > 0
    /\ \E k \in DOMAIN discoveredPolicies :
           \E e \in DOMAIN existingPolicies :
               existingPolicies[e].Spec = discoveredPolicies[k].Spec

\* C5: CIDR consolidation matches a discovered egress CIDR policy only with
\* an existing policy that is latest and has the same selector, the same
\* type, a toCIDRs rule kind and an equal CIDR set; with no such existing
\* policy the discovered policy is kept unchanged, nothing is merged and no
\* existing policy is marked outdated.
C5_CIDRMatchNeedsEqualSet ==
    [][\A d \in DiscoveredPool :
          (LoopStepOn(d) /\ CIDROnly(d)) =>
              /\ \A k \in DOMAIN NewCalls :
                     \E e \in Range(existingPolicies) :
                         e.Metadata.name = NewCalls[k][1] /\ ConsolidatesWith(e, d, "toCIDRs")
              /\ (~\E e \in Range(existingPolicies) : ConsolidatesWith(e, d, "toCIDRs")) =>
                     /\ Appends(d.Spec.Egress)
                     /\ NewCalls = <<>>
                     /\ store' = store]_vars

\* the policy of the first egress entry's ports, as a set, and repeat-free
PortsAre(eg, ports) ==
    /\ Range(eg[1].ToPorts) = ports
    /\ \A i, j \in DOMAIN eg[1].ToPorts : i # j => eg[1].ToPorts[i] # eg[1].ToPorts[j]

\* the policies of the store named as e is are outdated
MarkedOutdated(policies, e) ==
    \A i \in DOMAIN policies :
        policies[i].Metadata.name = e.Metadata.name =>
            policies[i].Metadata.status = "outdated"

\* d is handled by the consolidation of one rule kind only, and has a
\* counterpart among the existing policies
Consolidated(d, kind) ==
    /\ HasList(d, kind)
    /\ ~ExactDuplicate(d)
    /\ ~Contains(d.Metadata.rule, IF kind = "toCIDRs" THEN "toFQDNs" ELSE "toCIDRs")
    /\ \E e \in Range(existingPolicies) : ConsolidatesWith(e, d, kind)

\* C6: a discovered egress CIDR (FQDN) policy with at least one port that has
\* an existing latest counterpart (same selector, same CIDR or match-name
\* set) yields exactly one output policy whose ports are the repeat-free
\* union of its ports and the counterpart's, and the counterpart is marked
\* outdated.
C6_MergeIsPortUnion ==
    [][\A d \in DiscoveredPool : \A kind \in {"toCIDRs", "toFQDNs"} :
          (LoopStepOn(d) /\ Consolidated(d, kind) /\ Len(d.Spec.Egress[1].ToPorts) > 0) =>
              \E e \in Range(existingPolicies) :
                  /\ ConsolidatesWith(e, d, kind)
                  /\ Len(newPolicies') = Len(newPolicies) + 1
                  /\ PortsAre(egressArr'[idx],
                              Range(d.Spec.Egress[1].ToPorts) \cup Range(e.Spec.Egress[1].ToPorts))
                  /\ MarkedOutdated(store', e)]_vars

\* C7: a discovered egress CIDR policy without ports whose existing latest
\* counterpart (same selector, same CIDR set) has a port is discarded: the
\* output does not grow and the counterpart is not marked outdated.
C7_WeakerIsDiscarded ==
    [][\A d \in DiscoveredPool :
          (LoopStepOn(d) /\ Consolidated(d, "toCIDRs") /\ Len(d.Spec.Egress[1].ToPorts) = 0) =>
              \A e \in Range(existingPolicies) :
                  (ConsolidatesWith(e, d, "toCIDRs") /\ Len(e.Spec.Egress[1].ToPorts) > 0) =>
                      /\ newPolicies' = newPolicies
                      /\ \A k \in DOMAIN NewCalls : NewCalls[k][1] # e.Metadata.name]_vars

\* C8: the names of the policies a pass returns are pairwise distinct and
\* differ from the name of every existing policy.
C8_OutputNamesUnique ==
    dedupPC = "done" =>
        /\ \A i, j \in DOMAIN newPolicies :
               i # j => newPolicies[i].Metadata.name # newPolicies[j].Metadata.name
        /\ \A i \in DOMAIN newPolicies : \A e \in DOMAIN existingPolicies :
               newPolicies[i].Metadata.name # existingPolicies[e].Metadata.name

\* C9 (as claimed): the outdated annotation is issued at most once for an
\* existing policy, within a pass and over later passes, and never for a
\* policy that is outdated already.
C9_AnnotatedAtMostOnce ==
    [][/\ \A k \in DOMAIN NewCalls : \A i \in DOMAIN store :
              store[i].Metadata.name = NewCalls[k][1] => store[i].Metadata.status = "latest"
       /\ \A k, l \in DOMAIN NewCalls : k # l => NewCalls[k][1] # NewCalls[l][1]]_vars

\* C9 (amended): a policy of the store that is outdated stays outdated, and
\* steps 2 and 3 issue the outdated annotation only for a policy that is
\* latest in the existing set the pass was given.
C9_OutdatedNeverReversed ==
    [][/\ \A i \in DOMAIN store :
              store[i].Metadata.status = "outdated" =>
                  i \in DOMAIN store' /\ store'[i].Metadata.status = "outdated"
       /\ dedupPC = "loop" =>
              \A k \in DOMAIN NewCalls :
                  \E e \in Range(existingPolicies) :
                      e.Metadata.name = NewCalls[k][1] /\ e.Metadata.status = "latest"]_vars

\* C9 witness: the annotation has been issued twice for the same existing
\* policy in one pass, and that policy is outdated in the store.
C9_Witness ==
    /\ InPass
    /\ \E k, l \in DOMAIN labelCalls :
           /\ k # l
           /\ labelCalls[k][1] = labelCalls[l][1]
           /\ \E i \in DOMAIN store :
                  /\ store[i].Metadata.name = labelCalls[k][1]
                  /\ store[i].Metadata.status = "outdated"

\* policy p lists domain name d among the match names of an FQDN rule
ListsDomain(p, d) ==
    \E e \in DOMAIN p.Spec.Egress : \E f \in DOMAIN p.Spec.Egress[e].ToFQDNs :
        d \in Range(p.Spec.Egress[e].ToFQDNs[f].MatchNames)

\* the IPs of the CIDR entries of existing policy e, mask stripped
CIDRIPs(e) ==
    {SplitFirst(c, "/") :
        c \in UNION {Range(e.Spec.Egress[1].ToCIDRs[t].CIDRs) :
                        t \in DOMAIN e.Spec.Egress[1].ToCIDRs}}

\* C10: after a pass, for every existing egress CIDR policy E, every CIDR
\* entry of E and every domain d that the DNS map resolves to that entry's
\* IP: an output policy F with E's selector that lists d has been made E's
\* successor (the annotation E -> F was issued) and F's ports hold every port
\* of E, each once.
C10_PromotionCoversEveryDomain ==
    dedupPC = "done" =>
        \A e \in Range(existingPolicies) :
            (e.Metadata.type = "egress" /\ Contains(e.Metadata.rule, "toCIDRs")
                /\ Len(e.Spec.Egress) > 0) =>
                \A ip \in CIDRIPs(e) : \A d \in DOMAIN dnsToIPs :
                    ip \in Range(dnsToIPs[d]) =>
                        \A i \in DOMAIN Output :
                            (Output[i].Spec.Selector = e.Spec.Selector /\ ListsDomain(Output[i], d)) =>
                                /\ <<e.Metadata.name, Output[i].Metadata.name>> \in Range(labelCalls)
                                /\ \A p \in Range(e.Spec.Egress[1].ToPorts) :
                                       Occurs(Output[i].Spec.Egress[1].ToPorts, p) = 1

\* C11: a pass never aborts: whatever the existing set, the DNS map and the
\* discovered batch are (rule-kind tag, type, empty egress list included),
\* no step of DeduplicatePolicies ends in a run-time panic.
C11_PassNeverAborts == dedupPC # "panic"

\* C15: whenever an iteration of the loop of line 294 merges a discovered
\* policy with an existing one and annotates the existing policy, the
\* back-reference it writes is the name under which the discovered policy
\* is appended to the output (the name after the renaming of line 319).
C15_BackReferenceIsOutputName ==
    [][(dedupPC = "loop" /\ dedupPC' # "panic") =>
          \A k \in DOMAIN NewCalls :
              /\ Len(newPolicies') = Len(newPolicies) + 1
              /\ newPolicies'[Len(newPolicies')].Metadata.name = NewCalls[k][2]]_vars

\* policy p without the ports of its first egress entry
SansPorts(p) ==
    IF Len(p.Spec.Egress) > 0 THEN [p EXCEPT !.Spec.Egress[1].ToPorts = <<>>] ELSE p

\* C16: an iteration of the promotion pass leaves the number of output
\* entries as it is, every entry keeps its name, selector and rule entries,
\* and only an entry with an FQDN rule may have another port list afterwards.
C16_PromotionChangesPortsOnly ==
    [][dedupPC = "promote" =>
          /\ Len(newPolicies') = Len(newPolicies)
          /\ \A i \in DOMAIN newPolicies :
                 /\ SansPorts(Output'[i]) = SansPorts(Output[i])
                 /\ (~\E e \in DOMAIN Output[i].Spec.Egress :
                         Len(Output[i].Spec.Egress[e].ToFQDNs) > 0) =>
                        Output'[i] = Output[i]]_vars

(***************************************************************************)
(* Claims about the convertors                                             *)
(***************************************************************************)

\* C12: a raw flow without L3 record or without L4 record is answered with
\* ok = false (the call returns, and not with a NetworkLog), whatever its
\* other fields are; a NetworkLog returned with ok = true carries the IPs of
\* the flow's L3 record and the protocol and ports of its L4 record.
C12_L3AndL4Required ==
    Len(flowArg) > 0 =>
        LET f == flowArg[1]
            r == flowRet[1]
        IN /\ (Len(f.IP) = 0 \/ Len(f.L4) = 0) => (~r.panic /\ ~r.ok)
           /\ r.ok =>
                 /\ Len(f.IP) > 0 /\ Len(f.L4) > 0
                 /\ r.log.SrcIP = f.IP[1].Source
                 /\ r.log.DstIP = f.IP[1].Destination
                 /\ r.log.Protocol = getProtocol(f.L4[1])
                 /\ <<r.log.SrcPort, r.log.DstPort>> = getL4Ports(f.L4[1])

\* the flow carries a DNS response whose query names an internal service
InternalDNSResponse(f) ==
    /\ Len(f.L7) > 0
    /\ Len(f.L7[1].Dns) > 0
    /\ f.L7[1].Type = 2
    /\ HasSuffix(f.L7[1].Dns[1].Query, "svc.cluster.local.")

\* C13: a raw flow with a DNS response record whose query ends in
\* "svc.cluster.local." never yields a NetworkLog (ok = true), whether the
\* record lists resolved IPs or not.
C13_InternalDNSNeverLogged ==
    (Len(flowArg) > 0 /\ InternalDNSResponse(flowArg[1])) => ~flowRet[1].ok

\* the kube-system/kube-dns entries of a catalog, as positions
KubeDNS(svcs) ==
    {i \in DOMAIN svcs :
        svcs[i].Namespace = "kube-system" /\ svcs[i].ServiceName = "kube-dns"}

\* the egress entry is the DNS-resolver entry added for an FQDN rule
IsResolverEntry(ciliumEgress) ==
    /\ Len(ciliumEgress.ToEndpoints) = 1
    /\ <<"k8s-app", "kube-dns">> \in Range(ciliumEgress.ToEndpoints[1])

\* C14: a policy with an FQDN egress rule gets a DNS-resolver egress entry;
\* with kube-system/kube-dns entries in the catalog its ports are the ports
\* of those entries, with none (empty catalog or other services only) its
\* one port is 53/UDP; the port list is never empty.
C14_ResolverPortsOrStatic53 ==
    (Len(policyArg) > 0 /\ Contains(policyArg[1].Metadata.rule, "toFQDNs")) =>
        /\ \E e \in DOMAIN policyRet[1].Spec.Egress :
               IsResolverEntry(policyRet[1].Spec.Egress[e])
        /\ \A e \in DOMAIN policyRet[1].Spec.Egress :
               LET ce == policyRet[1].Spec.Egress[e]
               IN IsResolverEntry(ce) =>
                    /\ Len(ce.ToPorts) = 1
                    /\ Len(ce.ToPorts[1].Ports) > 0
                    /\ IF KubeDNS(servicesArg) = {}
                         THEN ce.ToPorts[1].Ports = <<[Port |-> "53", Protocol |-> "UDP"]>>
                         ELSE Range(ce.ToPorts[1].Ports) =
                                  {[Port |-> Itoa(servicesArg[i].ServicePort),
                                    Protocol |-> ToUpper(servicesArg[i].Protocol)] :
                                       i \in KubeDNS(servicesArg)}
====
